---- MODULE Spec2Model ----
(***************************************************************************)
(* AtomicLockAsync (src/src/lib.rs): a non-blocking mutex.  An exclusive   *)
(* cell (atomiclock::AtomicLock) is composed with a spin-locked list of    *)
(* wake handles (Vec<Arc<AtomicWaker>>).  Every task makes one request on  *)
(* the one handle, with lock_if_available(), lock() or lock_warn(), and a *)
(* task that obtains the Guard increments the protected value and drops    *)
(* the Guard; a second request of a task behaves like the first request of *)
(* another.                                                                *)
(*                                                                         *)
(* Each action is one atomic step of a method: the try-acquire on the      *)
(* cell, AtomicWaker::register, the spin-lock acquisition, the push, the   *)
(* release of the cell, one AtomicWaker::wake of the drain loop.           *)
(***************************************************************************)
EXTENDS Naturals, Sequences, FiniteSets

\* Number of tasks sharing the one AtomicLockAsync.
NumTasks == 3
\* The value the lock is constructed with (AtomicLockAsync::new(0) in the scenarios).
InitialValue == 0

Tasks == 1..NumTasks
\* No task owns the spin lock.
NoTask == 0

VARIABLES
    pc,                 \* position of each task in its request / guard / drop
    locked,             \* AtomicLockAsync.lock: the exclusive cell is claimed
    inner,              \* Guard._guard of the task's Guard is alive (not yet ManuallyDrop::drop'ed)
    value,              \* the protected value T
    tmp,                \* the value read through deref_mut by an increment in progress
    spin,               \* owner of the wakelist spin lock, NoTask when free
    wakelist,           \* AtomicLockAsync.wakelist: Vec<Arc<AtomicWaker>>, handles named by their request
    registered_waker,   \* LockFuture.registered_waker is Some
    awaker,             \* what the request's AtomicWaker holds: "none", the waker of the context
                        \* of the task's latest poll ("cur"), or that of an earlier context ("old")
    woken,              \* the waker of the task's current context was fired and no poll consumed it
    inserts,            \* history: pushes of each request into wakelist
    missedR,            \* history: a drain ran in the request's try/push window, no release since
    missedD,            \* history: the latest drain to start ran in the request's try/push window
    raced,              \* history: some drain overlapped some request's try/push window
    resumed,            \* history: the request is at the outcome of the try-acquire of the poll of a woken request
    owed,               \* history: a release happened while a request was suspended, none succeeded since
    perfwarn_interval,  \* LockWarnFuture.perfwarn_interval: "none", "some"; "absent" when the request is no LockWarnFuture
    rebound             \* history: the task whose step, the latest one, re-bound a handle that held an earlier context's waker

vars == <<pc, locked, inner, value, tmp, spin, wakelist, registered_waker,
          awaker, woken, inserts, missedR, missedD, raced, resumed, owed,
          perfwarn_interval, rebound>>

cellVars == <<locked, inner, value, tmp>>
listVars == <<spin, wakelist>>
histVars == <<inserts, missedR, missedD, raced, resumed, owed>>

\* A request between its failed try-acquire and its push into the wakelist.
InWindow(t) == pc[t] \in {"poll_new", "poll_push"}

\* A request that returned Pending and was not dropped.
Suspended(t) == pc[t] = "suspended"

\* A request that has been polled and has neither completed nor been dropped.
Waiting(t) == pc[t] \in {"poll_new", "poll_push", "poll_rebind", "suspended"}

\* The task's handle occurs in the wakelist.
InList(t) == \E i \in 1..Len(wakelist) : wakelist[i] = t

\* Number of occurrences of the task's handle in the wakelist.
Count(t) == Cardinality({i \in 1..Len(wakelist) : wakelist[i] = t})

\* The tasks that own a Guard whose inner cell guard has not been released.
LiveGuards == {t \in Tasks : inner[t]}

\* Completed increment-and-release cycles: the tasks that incremented and released the cell.
Cycles == Cardinality({t \in Tasks : pc[t] \in {"drop_spin", "drop_drain", "done"}})

\* AtomicLockAsync::new(t): a free cell and an empty wakelist; no request exists.
Init ==
    /\ pc = [t \in Tasks |-> "idle"]
    /\ locked = FALSE
    /\ inner = [t \in Tasks |-> FALSE]
    /\ value = InitialValue
    /\ tmp = [t \in Tasks |-> InitialValue]
    /\ spin = NoTask
    /\ wakelist = <<>>
    /\ registered_waker = [t \in Tasks |-> FALSE]
    /\ awaker = [t \in Tasks |-> "none"]
    /\ woken = [t \in Tasks |-> FALSE]
    /\ inserts = [t \in Tasks |-> 0]
    /\ missedR = [t \in Tasks |-> FALSE]
    /\ missedD = [t \in Tasks |-> FALSE]
    /\ raced = FALSE
    /\ resumed = [t \in Tasks |-> FALSE]
    /\ owed = FALSE
    /\ perfwarn_interval = [t \in Tasks |-> "absent"]
    /\ rebound = NoTask

----------------------------------------------------------------------------
(* AtomicLockAsync                                                         *)

\* Mutant: on a held cell the failed attempt leaves a handle in the wakelist.
LockIfAvailableRegisters(t) ==
    /\ pc[t] = "idle"
    /\ IF ~locked
         THEN /\ locked' = TRUE
              /\ inner' = [inner EXCEPT ![t] = TRUE]
              /\ pc' = [pc EXCEPT ![t] = "holding"]
              /\ wakelist' = wakelist
         ELSE /\ pc' = [pc EXCEPT ![t] = "refused"]
              /\ wakelist' = Append(wakelist, t)
              /\ UNCHANGED <<locked, inner>>
    /\ UNCHANGED <<value, tmp, spin, registered_waker, awaker, woken, histVars>>
    /\ rebound' = NoTask
    /\ UNCHANGED perfwarn_interval

\* lock_if_available: self.lock.lock().map(|guard| Guard {..})
LockIfAvailable(t) ==
    /\ pc[t] = "idle"
    /\ IF ~locked
         THEN /\ locked' = TRUE
              /\ inner' = [inner EXCEPT ![t] = TRUE]
              /\ pc' = [pc EXCEPT ![t] = "holding"]
         ELSE /\ pc' = [pc EXCEPT ![t] = "refused"]
              /\ UNCHANGED <<locked, inner>>
    /\ UNCHANGED <<value, tmp, listVars, registered_waker, awaker, woken, histVars>>
    /\ rebound' = NoTask
    /\ UNCHANGED perfwarn_interval

\* Mutant: lock() creates and pushes the wake handle at construction.
LockRegisters(t) ==
    /\ pc[t] = "idle"
    /\ spin = NoTask
    /\ pc' = [pc EXCEPT ![t] = "fresh"]
    /\ registered_waker' = [registered_waker EXCEPT ![t] = TRUE]
    /\ wakelist' = Append(wakelist, t)
    /\ inserts' = [inserts EXCEPT ![t] = @ + 1]
    /\ UNCHANGED <<cellVars, spin, awaker, woken, missedR, missedD, raced, resumed, owed>>
    /\ rebound' = NoTask
    /\ UNCHANGED perfwarn_interval

\* lock: LockFuture { lock: self, registered_waker: None }
Lock(t) ==
    /\ pc[t] = "idle"
    /\ pc' = [pc EXCEPT ![t] = "fresh"]
    /\ registered_waker' = [registered_waker EXCEPT ![t] = FALSE]
    /\ UNCHANGED <<cellVars, listVars, awaker, woken, histVars>>
    /\ rebound' = NoTask
    /\ UNCHANGED perfwarn_interval

\* lock_warn: LockWarnFuture { underlying_future: self.lock(), perfwarn_interval: None }
LockWarn(t) ==
    /\ pc[t] = "idle"
    /\ pc' = [pc EXCEPT ![t] = "fresh"]
    /\ registered_waker' = [registered_waker EXCEPT ![t] = FALSE]
    /\ perfwarn_interval' = [perfwarn_interval EXCEPT ![t] = "none"]
    /\ rebound' = NoTask
    /\ UNCHANGED <<cellVars, listVars, awaker, woken, histVars>>

----------------------------------------------------------------------------
(* LockFuture::poll                                                        *)

\* Mutant: the poll hands out a Guard without consulting the cell.
PollTryIgnoresCell(t, moved) ==
    /\ awaker' = [awaker EXCEPT ![t] = IF moved /\ @ = "cur" THEN "old" ELSE @]
    /\ woken' = [woken EXCEPT ![t] = FALSE]
    /\ resumed' = [resumed EXCEPT ![t] = Suspended(t) /\ woken[t]]
    /\ locked' = TRUE
    /\ inner' = [inner EXCEPT ![t] = TRUE]
    /\ pc' = [pc EXCEPT ![t] = "holding"]
    /\ owed' = IF Suspended(t) THEN FALSE ELSE owed
    /\ UNCHANGED <<value, tmp, listVars, registered_waker, inserts, missedR, missedD, raced>>
    /\ rebound' = NoTask

\* Mutant: a poll that finds the cell held creates a new handle whether or not the
\* request owns one.
PollTryAlwaysNewWaker(t, moved) ==
    /\ awaker' = [awaker EXCEPT ![t] = IF moved /\ @ = "cur" THEN "old" ELSE @]
    /\ woken' = [woken EXCEPT ![t] = FALSE]
    /\ resumed' = [resumed EXCEPT ![t] = Suspended(t) /\ woken[t]]
    /\ IF ~locked
         THEN /\ locked' = TRUE
              /\ inner' = [inner EXCEPT ![t] = TRUE]
              /\ pc' = [pc EXCEPT ![t] = "holding"]
              /\ owed' = IF Suspended(t) THEN FALSE ELSE owed
         ELSE /\ pc' = [pc EXCEPT ![t] = "poll_new"]
              /\ UNCHANGED <<locked, inner, owed>>
    /\ UNCHANGED <<value, tmp, listVars, registered_waker, inserts, missedR, missedD, raced>>
    /\ rebound' = NoTask

\* poll(cx), up to the match on self.lock.lock.lock(): Some(guard) => Ready(Guard),
\* None => go on to the match on self.registered_waker.  `moved` says that cx is
\* another context than that of the task's previous poll, which makes a waker bound
\* before a waker of an earlier context.  The poll consumes the task's notification.
PollTry(t, moved) ==
    /\ awaker' = [awaker EXCEPT ![t] = IF moved /\ @ = "cur" THEN "old" ELSE @]
    /\ woken' = [woken EXCEPT ![t] = FALSE]
    /\ resumed' = [resumed EXCEPT ![t] = Suspended(t) /\ woken[t]]
    /\ IF ~locked
         THEN /\ locked' = TRUE
              /\ inner' = [inner EXCEPT ![t] = TRUE]
              /\ pc' = [pc EXCEPT ![t] = "holding"]
              /\ owed' = IF Suspended(t) THEN FALSE ELSE owed
         ELSE /\ pc' = [pc EXCEPT ![t] =
                          IF registered_waker[t] THEN "poll_rebind" ELSE "poll_new"]
              /\ UNCHANGED <<locked, inner, owed>>
    /\ UNCHANGED <<value, tmp, listVars, registered_waker, inserts, missedR, missedD, raced>>
    /\ rebound' = NoTask

\* The executor's first poll of a request.
PollFirst(t) ==
    /\ pc[t] = "fresh"
    /\ perfwarn_interval[t] = "absent"
    /\ PollTry(t, FALSE)
    /\ UNCHANGED perfwarn_interval

\* The executor polls a suspended request whose waker was fired.
PollWoken(t, moved) ==
    /\ Suspended(t)
    /\ woken[t]
    /\ perfwarn_interval[t] = "absent"
    /\ PollTry(t, moved)
    /\ UNCHANGED perfwarn_interval

\* The executor polls a suspended request that nobody woke (a spurious wake).
PollSpurious(t, moved) ==
    /\ Suspended(t)
    /\ ~woken[t]
    /\ perfwarn_interval[t] = "absent"
    /\ PollTry(t, moved)
    /\ UNCHANGED perfwarn_interval

\* Mutant: the poll that opens the interval returns Pending without polling the
\* underlying future.
LockWarnPollOpensOnly(t, moved) ==
    /\ pc[t] \in {"fresh", "suspended"}
    /\ perfwarn_interval[t] # "absent"
    /\ pc[t] = "fresh" => ~moved
    /\ IF perfwarn_interval[t] = "none"
         THEN /\ perfwarn_interval' = [perfwarn_interval EXCEPT ![t] = "some"]
              /\ pc' = [pc EXCEPT ![t] = "suspended"]
              /\ woken' = [woken EXCEPT ![t] = FALSE]
              /\ rebound' = NoTask
              /\ UNCHANGED <<cellVars, listVars, registered_waker, awaker, histVars>>
         ELSE /\ PollTry(t, moved)
              /\ UNCHANGED perfwarn_interval

\* LockWarnFuture::poll: open the interval if there is none, poll the underlying
\* future, take() the interval if the result is Ready, return the result.  The
\* executor polls at first, when the waker was fired, or spuriously.
LockWarnPoll(t, moved) ==
    /\ pc[t] \in {"fresh", "suspended"}
    /\ perfwarn_interval[t] # "absent"
    /\ pc[t] = "fresh" => ~moved
    /\ PollTry(t, moved)
    /\ perfwarn_interval' = [perfwarn_interval EXCEPT ![t] =
                                IF pc'[t] = "holding" THEN "none" ELSE "some"]

\* Mutant: the repeat suspension pushes the handle again.
PollRebindReinserts(t) ==
    /\ pc[t] = "poll_rebind"
    /\ spin = NoTask
    /\ awaker' = [awaker EXCEPT ![t] = "cur"]
    /\ wakelist' = Append(wakelist, t)
    /\ inserts' = [inserts EXCEPT ![t] = @ + 1]
    /\ resumed' = [resumed EXCEPT ![t] = FALSE]
    /\ pc' = [pc EXCEPT ![t] = "suspended"]
    /\ UNCHANGED <<cellVars, spin, registered_waker, woken, missedR, missedD, raced, owed>>
    /\ rebound' = IF awaker[t] = "old" THEN t ELSE NoTask
    /\ UNCHANGED perfwarn_interval

\* Mutant: the repeat suspension returns Pending without registering the waker of
\* the context of this poll.
PollRebindKeepsWaker(t) ==
    /\ pc[t] = "poll_rebind"
    /\ resumed' = [resumed EXCEPT ![t] = FALSE]
    /\ pc' = [pc EXCEPT ![t] = "suspended"]
    /\ UNCHANGED <<cellVars, listVars, registered_waker, awaker, woken,
                   inserts, missedR, missedD, raced, owed>>
    /\ rebound' = NoTask
    /\ UNCHANGED perfwarn_interval

\* Some(ref waker) => { waker.register(cx.waker()); Poll::Pending }
PollRebind(t) ==
    /\ pc[t] = "poll_rebind"
    /\ awaker' = [awaker EXCEPT ![t] = "cur"]
    /\ resumed' = [resumed EXCEPT ![t] = FALSE]
    /\ pc' = [pc EXCEPT ![t] = "suspended"]
    /\ UNCHANGED <<cellVars, listVars, registered_waker, woken,
                   inserts, missedR, missedD, raced, owed>>
    /\ rebound' = IF awaker[t] = "old" THEN t ELSE NoTask
    /\ UNCHANGED perfwarn_interval

\* None => let waker = Arc::new(AtomicWaker::new()); waker.register(cx.waker());
\* and the spin_lock_warn() of the push, which waits for the spin lock.
PollSpinLock(t) ==
    /\ pc[t] = "poll_new"
    /\ spin = NoTask
    /\ awaker' = [awaker EXCEPT ![t] = "cur"]
    /\ spin' = t
    /\ pc' = [pc EXCEPT ![t] = "poll_push"]
    /\ UNCHANGED <<cellVars, wakelist, registered_waker, woken, histVars>>
    /\ rebound' = NoTask
    /\ UNCHANGED perfwarn_interval

\* Mutant: the handle is remembered on the request but never pushed.
PollPushForgets(t) ==
    /\ pc[t] = "poll_push"
    /\ spin = t
    /\ spin' = NoTask
    /\ registered_waker' = [registered_waker EXCEPT ![t] = TRUE]
    /\ pc' = [pc EXCEPT ![t] = "suspended"]
    /\ UNCHANGED <<cellVars, wakelist, awaker, woken, histVars>>
    /\ rebound' = NoTask
    /\ UNCHANGED perfwarn_interval

\* .push(waker.clone()) and the end of the statement, which drops the spin guard;
\* self.registered_waker = Some(waker); Poll::Pending
PollPush(t) ==
    /\ pc[t] = "poll_push"
    /\ spin = t
    /\ wakelist' = Append(wakelist, t)
    /\ inserts' = [inserts EXCEPT ![t] = @ + 1]
    /\ spin' = NoTask
    /\ registered_waker' = [registered_waker EXCEPT ![t] = TRUE]
    /\ pc' = [pc EXCEPT ![t] = "suspended"]
    /\ UNCHANGED <<cellVars, awaker, woken, missedR, missedD, raced, resumed, owed>>
    /\ rebound' = NoTask
    /\ UNCHANGED perfwarn_interval

\* Mutant: dropping a suspended LockFuture takes its handle out of the wakelist.
AbandonDeregisters(t) ==
    /\ Suspended(t)
    /\ pc' = [pc EXCEPT ![t] = "abandoned"]
    /\ woken' = [woken EXCEPT ![t] = FALSE]
    /\ wakelist' = SelectSeq(wakelist, LAMBDA h : h # t)
    /\ UNCHANGED <<cellVars, spin, registered_waker, awaker, histVars>>
    /\ rebound' = NoTask
    /\ UNCHANGED perfwarn_interval

\* The owner drops a suspended LockFuture; its Arc<AtomicWaker> stays where it is.
\* The owner is the task, which runs to drop it: a notification it had is consumed.
Abandon(t) ==
    /\ Suspended(t)
    /\ pc' = [pc EXCEPT ![t] = "abandoned"]
    /\ woken' = [woken EXCEPT ![t] = FALSE]
    /\ UNCHANGED <<cellVars, listVars, registered_waker, awaker, histVars>>
    /\ rebound' = NoTask
    /\ UNCHANGED perfwarn_interval

----------------------------------------------------------------------------
(* Guard: DerefMut and Drop                                                *)

\* The read half of `*guard += 1` through deref_mut.
DerefRead(t) ==
    /\ pc[t] = "holding"
    /\ tmp' = [tmp EXCEPT ![t] = value]
    /\ resumed' = [resumed EXCEPT ![t] = FALSE]
    /\ pc' = [pc EXCEPT ![t] = "incr"]
    /\ UNCHANGED <<locked, inner, value, listVars, registered_waker, awaker, woken,
                   inserts, missedR, missedD, raced, owed>>
    /\ rebound' = NoTask
    /\ UNCHANGED perfwarn_interval

\* The write half of `*guard += 1` through deref_mut.
DerefWrite(t) ==
    /\ pc[t] = "incr"
    /\ value' = tmp[t] + 1
    /\ tmp' = [tmp EXCEPT ![t] = InitialValue]
    /\ pc' = [pc EXCEPT ![t] = "written"]
    /\ UNCHANGED <<locked, inner, listVars, registered_waker, awaker, woken, histVars>>
    /\ rebound' = NoTask
    /\ UNCHANGED perfwarn_interval

\* Mutant: the ManuallyDrop'ed inner guard is never dropped; drop goes on to the wakelist.
GuardDropKeepsCell(t) ==
    /\ pc[t] = "written"
    /\ missedR' = [u \in Tasks |-> FALSE]
    /\ owed' = (owed \/ \E u \in Tasks : Suspended(u))
    /\ pc' = [pc EXCEPT ![t] = "drop_spin"]
    /\ UNCHANGED <<cellVars, listVars, registered_waker, awaker, woken, inserts, missedD, raced, resumed>>
    /\ rebound' = NoTask
    /\ UNCHANGED perfwarn_interval

\* unsafe{ManuallyDrop::drop(&mut self._guard)}: release the underlying lock first
GuardDropRelease(t) ==
    /\ pc[t] = "written"
    /\ locked' = FALSE
    /\ inner' = [inner EXCEPT ![t] = FALSE]
    /\ missedR' = [u \in Tasks |-> FALSE]
    /\ owed' = (owed \/ \E u \in Tasks : Suspended(u))
    /\ pc' = [pc EXCEPT ![t] = "drop_spin"]
    /\ UNCHANGED <<value, tmp, listVars, registered_waker, awaker, woken, inserts, missedD, raced, resumed>>
    /\ rebound' = NoTask
    /\ UNCHANGED perfwarn_interval

\* let mut lock = self.lock.wakelist.spin_lock_warn();
DropSpinLock(t) ==
    /\ pc[t] = "drop_spin"
    /\ spin = NoTask
    /\ spin' = t
    /\ missedR' = [u \in Tasks |-> missedR[u] \/ InWindow(u)]
    /\ missedD' = [u \in Tasks |-> InWindow(u)]
    /\ raced' = (raced \/ \E u \in Tasks : InWindow(u))
    /\ pc' = [pc EXCEPT ![t] = "drop_drain"]
    /\ UNCHANGED <<cellVars, wakelist, registered_waker, awaker, woken, inserts, resumed, owed>>
    /\ rebound' = NoTask
    /\ UNCHANGED perfwarn_interval

\* for drain in lock.drain(..) { drain.wake(); }: one iteration.  AtomicWaker::wake
\* takes the waker the handle holds, if any, and fires it; the waker of a context the
\* task has left resumes nobody.
DropDrainWake(t) ==
    /\ pc[t] = "drop_drain"
    /\ spin = t
    /\ wakelist # <<>>
    /\ LET w == Head(wakelist) IN
         /\ woken' = [woken EXCEPT ![w] = IF awaker[w] = "cur" THEN TRUE ELSE @]
         /\ awaker' = [awaker EXCEPT ![w] = "none"]
    /\ wakelist' = Tail(wakelist)
    /\ raced' = (raced \/ \E u \in Tasks : InWindow(u))
    /\ UNCHANGED <<pc, cellVars, spin, registered_waker, inserts, missedR, missedD, resumed, owed>>
    /\ rebound' = NoTask
    /\ UNCHANGED perfwarn_interval

\* Mutant: the drop leaves the critical section without looking at the wakelist
\* again, handles that are still in it stay.
DropUnlockEarly(t) ==
    /\ pc[t] = "drop_drain"
    /\ spin = t
    /\ spin' = NoTask
    /\ raced' = (raced \/ \E u \in Tasks : InWindow(u))
    /\ pc' = [pc EXCEPT ![t] = "done"]
    /\ UNCHANGED <<cellVars, wakelist, registered_waker, awaker, woken,
                   inserts, missedR, missedD, resumed, owed>>
    /\ rebound' = NoTask
    /\ UNCHANGED perfwarn_interval

\* The drain is exhausted; the spin guard goes out of scope.
DropUnlock(t) ==
    /\ pc[t] = "drop_drain"
    /\ spin = t
    /\ wakelist = <<>>
    /\ spin' = NoTask
    /\ raced' = (raced \/ \E u \in Tasks : InWindow(u))
    /\ pc' = [pc EXCEPT ![t] = "done"]
    /\ UNCHANGED <<cellVars, wakelist, registered_waker, awaker, woken,
                   inserts, missedR, missedD, resumed, owed>>
    /\ rebound' = NoTask
    /\ UNCHANGED perfwarn_interval

----------------------------------------------------------------------------

\* The steps a task takes without anybody's decision: the executor's first poll,
\* the poll of a woken request, the rest of a poll that has begun, the rest of a
\* drop that has begun.
Progress(t) ==
    \/ PollFirst(t)
    \/ PollWoken(t, FALSE)
    \/ PollRebind(t)
    \/ PollSpinLock(t)
    \/ PollPush(t)
    \/ DropSpinLock(t)
    \/ DropDrainWake(t)
    \/ DropUnlock(t)

\* The steps of the holder of a Guard: the increment and the drop.
Holder(t) ==
    \/ DerefRead(t)
    \/ DerefWrite(t)
    \/ GuardDropRelease(t)

\* The steps of the handle's methods, of the Guards, and of the polls an executor
\* makes that polls a request once at first and then whenever its waker was fired,
\* always under the same context.
NextWake ==
    \/ \E t \in Tasks : LockIfAvailable(t)
    \/ \E t \in Tasks : Lock(t)
    \/ \E t \in Tasks : PollFirst(t)
    \/ \E t \in Tasks : PollWoken(t, FALSE)
    \/ \E t \in Tasks : PollRebind(t)
    \/ \E t \in Tasks : PollSpinLock(t)
    \/ \E t \in Tasks : PollPush(t)
    \/ \E t \in Tasks : DerefRead(t)
    \/ \E t \in Tasks : DerefWrite(t)
    \/ \E t \in Tasks : GuardDropRelease(t)
    \/ \E t \in Tasks : DropSpinLock(t)
    \/ \E t \in Tasks : DropDrainWake(t)
    \/ \E t \in Tasks : DropUnlock(t)

\* What an executor and an owner may do besides: poll a woken request under another
\* context, poll a request nobody woke, drop a suspended request.
NextEnv ==
    \/ \E t \in Tasks : PollWoken(t, TRUE)
    \/ \E t \in Tasks, moved \in BOOLEAN : PollSpurious(t, moved)
    \/ \E t \in Tasks : Abandon(t)

Next ==
    \/ NextWake
    \/ NextEnv

\* The steps of requests made with lock() and of the Guards they yield.
NextLockOnly ==
    \/ \E t \in Tasks : Lock(t)
    \/ \E t \in Tasks : PollFirst(t)
    \/ \E t \in Tasks : PollWoken(t, FALSE)
    \/ \E t \in Tasks : PollRebind(t)
    \/ \E t \in Tasks : PollSpinLock(t)
    \/ \E t \in Tasks : PollPush(t)
    \/ \E t \in Tasks : DerefRead(t)
    \/ \E t \in Tasks : DerefWrite(t)
    \/ \E t \in Tasks : GuardDropRelease(t)
    \/ \E t \in Tasks : DropSpinLock(t)
    \/ \E t \in Tasks : DropDrainWake(t)
    \/ \E t \in Tasks : DropUnlock(t)
    \/ NextEnv

\* The tasks that acquire with lock_warn() in the scenario of SpecWarn; the others
\* acquire with lock().
WarnTasks == {t \in Tasks : t % 2 = 1}

\* The steps of requests made with lock_warn() or lock() and of the Guards they yield.
NextWarn ==
    \/ \E t \in WarnTasks : LockWarn(t)
    \/ \E t \in Tasks \ WarnTasks : Lock(t)
    \/ \E t \in Tasks, moved \in BOOLEAN : LockWarnPoll(t, moved)
    \/ \E t \in Tasks : PollFirst(t)
    \/ \E t \in Tasks : PollWoken(t, FALSE)
    \/ \E t \in Tasks : PollRebind(t)
    \/ \E t \in Tasks : PollSpinLock(t)
    \/ \E t \in Tasks : PollPush(t)
    \/ \E t \in Tasks : DerefRead(t)
    \/ \E t \in Tasks : DerefWrite(t)
    \/ \E t \in Tasks : GuardDropRelease(t)
    \/ \E t \in Tasks : DropSpinLock(t)
    \/ \E t \in Tasks : DropDrainWake(t)
    \/ \E t \in Tasks : DropUnlock(t)
    \/ NextEnv

\* Any interleaving of lock_if_available, lock, polls, abandonments and Guard drops.
Spec == Init /\ [][Next]_vars

\* The scenario in which every task acquires with lock().
SpecLockOnly == Init /\ [][NextLockOnly]_vars

\* The scenario in which some tasks acquire with lock_warn() and the others with lock().
SpecWarn == Init /\ [][NextWarn]_vars

\* An executor that polls a request at first and whenever it was woken, and only
\* then: every woken or first-time request is polled, every poll and every drop that
\* has begun runs to its end, and every Guard is eventually dropped.  Nothing forces
\* a task to start a request.
FairSpec ==
    /\ Init
    /\ [][NextWake]_vars
    /\ \A t \in Tasks : WF_vars(Progress(t))
    /\ \A t \in Tasks : WF_vars(Holder(t))

----------------------------------------------------------------------------
(* Properties                                                              *)

\* C1: mutual exclusion.  In every reachable state at most one Guard that has not
\* yet released the exclusive cell exists.
C1_MutualExclusion == Cardinality(LiveGuards) <= 1

\* A Guard is live while one task has finished its drop and another is suspended.
C1_Witness ==
    \E t, u, v \in Tasks : inner[t] /\ pc[u] = "done" /\ Suspended(v)

\* C2: eventual acquisition.  Once a Guard has been released while a request was
\* suspended, a suspended request eventually succeeds, unless a drain overlapped a
\* request's try/push window or no request is waiting any more.
C2_EventualAcquisition ==
    owed ~> (~owed \/ raced \/ \A t \in Tasks : ~Waiting(t))

\* C3: no lost wakeups on release.  When a Guard drop leaves its drain, every
\* request that is suspended has been woken.
C3_NoLostWakeup ==
    [][\A t \in Tasks :
          (pc[t] = "drop_drain" /\ pc'[t] = "done")
              => \A u \in Tasks : Suspended(u) => woken[u]]_vars

\* C4: release before wake.  A Guard drop that is about to enter, or is inside, the
\* critical section of the wakelist has released the exclusive cell.
C4_ReleaseBeforeWake ==
    \A t \in Tasks : pc[t] \in {"drop_spin", "drop_drain"} => ~inner[t]

\* A drop is draining and has just woken a suspended request.
C4_Witness ==
    \E t, u \in Tasks : pc[t] = "drop_drain" /\ spin = t /\ Suspended(u) /\ woken[u]

\* Task r is the releaser and w the waiter, and no other task has made a request.
OneReleaserOneWaiter(r, w) ==
    /\ r # w
    /\ pc[r] \in {"drop_drain", "done"}
    /\ \A o \in Tasks \ {r, w} : pc[o] = "idle"

\* C5: with one releaser and one waiter, the poll of the waiter woken by the
\* releaser's drop finds the cell free and returns Ready with a Guard.
C5_WokenWaiterAcquires ==
    [][\A r, w \in Tasks :
          (/\ OneReleaserOneWaiter(r, w)
           /\ Suspended(w) /\ woken[w]
           /\ pc'[w] \notin {"suspended", "abandoned"})
              => pc'[w] = "holding" /\ inner'[w]]_vars

\* The woken waiter holds the Guard, the releaser being the only other requester.
C5_Witness ==
    \E r, w \in Tasks :
        /\ OneReleaserOneWaiter(r, w)
        /\ resumed[w]
        /\ pc[w] = "holding" /\ inner[w]

\* C6: no duplicate registry growth.  A request has pushed at most one handle,
\* however often it was polled, and the wakelist holds it at most once.
C6_NoDuplicateEntries ==
    \A t \in Tasks : inserts[t] <= 1 /\ Count(t) <= 1

\* A request in a second contended poll, with its one entry in the wakelist.
C6_Witness ==
    \E t \in Tasks : pc[t] = "poll_rebind" /\ InList(t) /\ locked /\ inserts[t] = 1

\* C7 as stated: in every state the value is the initial value plus the number of
\* completed increment-and-release cycles.
C7_Original == value = InitialValue + Cycles

\* C7 as amended: the value is the initial value plus the completed cycles plus the
\* increment of the holder that has written and not yet released; once all tasks
\* have completed it is the initial value plus their number.
C7_NoLostUpdates ==
    /\ value = InitialValue + Cycles + Cardinality({t \in Tasks : pc[t] = "written"})
    /\ (\A t \in Tasks : pc[t] = "done") => value = InitialValue + NumTasks

\* All tasks have completed, and all but the first had to suspend.
C7_Witness ==
    /\ \A t \in Tasks : pc[t] = "done"
    /\ Cardinality({t \in Tasks : inserts[t] = 1}) = NumTasks - 1

\* C8 as stated: a request whose try/push window contained a drain, with no release
\* since, is not woken and has its handle in the wakelist.
C8_Original ==
    \A t \in Tasks : (missedR[t] /\ Suspended(t)) => (~woken[t] /\ InList(t))

\* C8 as amended: a request whose try/push window contained the latest drain to
\* start is not woken and has its handle in the wakelist.
C8_MissedWakeup ==
    \A t \in Tasks : (missedD[t] /\ Suspended(t)) => (~woken[t] /\ InList(t))

\* The hazard: the cell is free, nobody is left to release it, and the request is
\* suspended with its handle in the wakelist.
C8_Witness ==
    \E t \in Tasks :
        /\ missedD[t] /\ Suspended(t) /\ InList(t) /\ ~woken[t]
        /\ ~locked
        /\ \A u \in Tasks \ {t} : pc[u] = "done"

\* C9: lock_if_available returns a Guard exactly when the cell was free, never
\* suspends and never touches the wakelist; on a held cell it changes nothing.
C9_TryLock ==
    [][\A t \in Tasks :
          (pc[t] = "idle" /\ pc'[t] \notin {"idle", "fresh"})
              => /\ pc'[t] \in {"holding", "refused"}
                 /\ (pc'[t] = "holding") <=> ~locked
                 /\ pc'[t] = "holding" => (locked' /\ inner'[t])
                 /\ UNCHANGED <<spin, wakelist>>
                 /\ locked => UNCHANGED <<locked, inner, value, spin, wakelist>>]_vars

\* lock_if_available was refused while another task holds the Guard and a request
\* is registered.
C9_Witness ==
    \E t, u \in Tasks : pc[t] = "refused" /\ inner[u] /\ wakelist # <<>>

\* C10: the poll of a suspended request that finds the cell held by another task
\* returns Pending and changes neither the cell, the value nor the wakelist.
C10_SpuriousPollHarmless ==
    [][\A t \in Tasks :
          /\ (Suspended(t) /\ locked /\ pc'[t] \notin {"suspended", "abandoned"})
                => (pc'[t] = "poll_rebind" /\ UNCHANGED <<locked, inner, value, wakelist>>)
          /\ (pc[t] = "poll_rebind" /\ pc'[t] # "poll_rebind")
                => (pc'[t] = "suspended" /\ UNCHANGED <<locked, inner, value, wakelist>>)]_vars

\* The poll of a woken request has found the cell held by another task.
C10_Witness ==
    \E t, u \in Tasks :
        /\ pc[t] = "poll_rebind" /\ resumed[t]
        /\ inner[u]

\* C11: waking a stale handle is a safe no-op.  A drain step that fires the handle
\* of a request that has completed or was dropped while suspended moves no task,
\* leaves the cell, the value, the spin lock and every other task's notification
\* as they are and only takes the handle out of the wakelist; dropping a suspended
\* request changes neither the cell nor the wakelist nor any handle.
C11_StaleWakeSafe ==
    [][/\ (wakelist # <<>> /\ wakelist' = Tail(wakelist) /\ ~Waiting(Head(wakelist)))
            => /\ UNCHANGED <<pc, locked, inner, value, tmp, spin, registered_waker>>
               /\ \A u \in Tasks \ {Head(wakelist)} :
                      woken'[u] = woken[u] /\ awaker'[u] = awaker[u]
       /\ \A t \in Tasks :
            (Suspended(t) /\ pc'[t] = "abandoned")
                => UNCHANGED <<locked, inner, value, spin, wakelist, awaker>>]_vars

\* A drain has fired the handle of a request after the request was dropped.
C11_Witness ==
    \E a \in Tasks :
        pc[a] = "abandoned" /\ woken[a] /\ awaker[a] = "none" /\ ~InList(a)

\* C12: laziness.  Constructing a request with lock() or lock_warn() changes
\* neither the cell, the value, the spin lock, the wakelist nor any handle or
\* notification; the request it yields owns no wake handle and has no open
\* interval, and it stays so, outside the wakelist and without a Guard, until its
\* first poll.
C12_Lazy ==
    [][\A t \in Tasks :
          /\ (pc[t] = "idle" /\ pc'[t] = "fresh")
                => /\ UNCHANGED <<locked, inner, value, tmp, spin, wakelist,
                                  awaker, woken, inserts>>
                   /\ ~registered_waker'[t]
                   /\ perfwarn_interval'[t] # "some"
          /\ pc[t] = "fresh"
                => /\ ~registered_waker[t] /\ awaker[t] = "none" /\ ~InList(t)
                   /\ inserts[t] = 0 /\ ~inner[t] /\ perfwarn_interval[t] # "some"]_vars

\* While a Guard is live, a request made with lock_warn() and one made with lock()
\* have been constructed and not yet polled.
C12_Witness ==
    \E t, u, v \in Tasks :
        /\ pc[t] = "fresh" /\ perfwarn_interval[t] = "none"
        /\ pc[u] = "fresh" /\ perfwarn_interval[u] = "absent"
        /\ inner[v] /\ locked

\* C13: the diagnostic wrapper is purely observational.  Every poll of a
\* LockWarnFuture is, on the cell, the value, the wakelist, the handles, the
\* notifications and the result (Ready with the Guard, or the Pending path), a
\* poll of the LockFuture it wraps made in the same state.
C13_WrapperObservational ==
    [][\A t \in Tasks :
          (/\ perfwarn_interval[t] # "absent"
           /\ pc[t] \in {"fresh", "suspended"}
           /\ pc'[t] \notin {pc[t], "abandoned"})
              => \E moved \in BOOLEAN : PollTry(t, moved)]_vars

\* A request made with lock_warn() has returned Ready and closed its interval while
\* another is suspended with its handle in the wakelist and its interval open.
C13_Witness ==
    \E t, u \in Tasks :
        /\ Suspended(t) /\ InList(t) /\ perfwarn_interval[t] = "some"
        /\ pc[u] = "holding" /\ perfwarn_interval[u] = "none"

\* C14: exactly one registry entry per waiting request.  A request that owns a wake
\* handle and whose try-acquire has just failed has that handle in the wakelist,
\* and a request that is suspended and has not been notified has exactly one entry
\* in the wakelist.
C14_OneEntryPerWaiter ==
    \A t \in Tasks :
        /\ pc[t] = "poll_rebind" => Count(t) = 1
        /\ (Suspended(t) /\ ~woken[t]) => Count(t) = 1

\* C15: every poll is a fresh attempt.  A poll of a request, the first one, one
\* after a wake-up or a spurious one, returns Ready only by claiming in that very
\* step a cell that was free, and takes the path to Pending only from a cell that
\* was held, which it leaves as it is; a request becomes suspended only at the end
\* of such a path.
C15_FreshAttempt ==
    [][\A t \in Tasks :
          /\ (pc[t] \in {"fresh", "suspended"} /\ pc'[t] \notin {pc[t], "abandoned"})
                => \/ /\ pc'[t] = "holding"
                      /\ ~locked /\ locked' /\ ~inner[t] /\ inner'[t]
                   \/ /\ pc'[t] \in {"poll_new", "poll_rebind"}
                      /\ locked /\ UNCHANGED <<locked, inner>>
          /\ (pc[t] # "suspended" /\ pc'[t] = "suspended")
                => pc[t] \in {"poll_rebind", "poll_push"}]_vars

\* The poll of a woken request has found the cell held and goes on to Pending,
\* while the first poll of another request has found it free and returned Ready.
C15_Witness ==
    \E t, u \in Tasks :
        /\ pc[t] = "poll_rebind" /\ resumed[t] /\ locked /\ ~inner[t]
        /\ pc[u] = "holding" /\ inner[u] /\ ~registered_waker[u]

\* C16: the drain is complete.  A Guard drop that is in its drain owns the spin
\* lock; while it does, the wakelist changes only by losing its first handle, which
\* is fired in the same step (its waker is taken and, when it is the waker of the
\* request's current context, the request is notified); and the drop leaves the
\* critical section only with the wakelist empty.
C16_DrainComplete ==
    [][\A t \in Tasks :
          pc[t] = "drop_drain"
              => /\ spin = t
                 /\ wakelist' # wakelist
                       => /\ wakelist # <<>>
                          /\ wakelist' = Tail(wakelist)
                          /\ awaker'[Head(wakelist)] = "none"
                          /\ awaker[Head(wakelist)] = "cur" => woken'[Head(wakelist)]
                          /\ pc'[t] = "drop_drain" /\ spin' = t
                 /\ pc'[t] # "drop_drain"
                       => /\ pc'[t] = "done"
                          /\ wakelist = <<>> /\ wakelist' = <<>>
                          /\ spin' = NoTask]_vars

\* One drain has removed and fired the handles of two suspended requests and has
\* left the critical section.
C16_Witness ==
    \E t, u, v \in Tasks :
        /\ u # v
        /\ pc[t] = "done" /\ spin = NoTask /\ wakelist = <<>>
        /\ Suspended(u) /\ woken[u] /\ inserts[u] = 1
        /\ Suspended(v) /\ woken[v] /\ inserts[v] = 1
        /\ \A x \in Tasks \ {t} : pc[x] \notin {"drop_spin", "drop_drain", "done"}

\* C17: lock-ordering discipline.  The owner of the wakelist spin lock is a poll at
\* its push or a Guard drop at its drain and holds no live inner guard; a step of
\* the owner neither claims nor releases the cell; a task that takes the spin lock
\* holds no live inner guard and does not touch the cell in that step; and a
\* suspended request (one that returned Pending) does not own the spin lock.
C17_LockOrdering ==
    [][\A t \in Tasks :
          /\ spin = t
                => /\ pc[t] \in {"poll_push", "drop_drain"}
                   /\ ~inner[t]
                   /\ pc'[t] # pc[t]
                         => /\ UNCHANGED <<locked, inner>>
                            /\ spin' = NoTask
          /\ (spin # t /\ spin' = t)
                => /\ ~inner[t] /\ ~inner'[t]
                   /\ UNCHANGED <<locked, inner>>
          /\ pc[t] \in {"fresh", "suspended", "idle", "written"} => spin # t
          /\ pc'[t] = "suspended" => spin' # t]_vars

\* A poll owns the spin lock for its push while another task holds the cell, and a
\* Guard drop that has released the cell waits for the spin lock.
C17_Witness ==
    \E t, u, v \in Tasks :
        /\ pc[t] = "poll_push" /\ spin = t
        /\ inner[u] /\ locked
        /\ pc[v] = "drop_spin" /\ ~inner[v]

\* C18: re-binding on repeat suspension.  A poll that takes the repeat-suspension
\* path leaves the request's handle bound to the waker of the context of that poll,
\* so that no suspended request has a handle bound to an earlier context, and the
\* firing of the bound handle of a suspended request notifies the request in its
\* current context.
C18_Rebind ==
    [][\A t \in Tasks :
          /\ Suspended(t) => awaker[t] # "old"
          /\ (pc[t] = "poll_rebind" /\ pc'[t] = "suspended") => awaker'[t] = "cur"
          /\ (Suspended(t) /\ awaker[t] = "cur" /\ awaker'[t] = "none") => woken'[t]]_vars

\* A request polled under another context than before has found the cell held and
\* has just re-bound its handle, which is in the wakelist, to the new context.
C18_Witness ==
    \E t \in Tasks :
        rebound = t /\ Suspended(t) /\ awaker[t] = "cur" /\ InList(t) /\ locked

\* C19: lazy handle creation.  A poll goes on to create a wake handle only when it
\* found the cell held and the request owns none and has pushed none; a request
\* whose first poll finds the cell free returns Ready without a handle and leaves
\* the wakelist, the spin lock and every handle as they are; and a request that
\* owns a handle keeps owning it.
C19_LazyHandle ==
    [][\A t \in Tasks :
          /\ (pc[t] # "poll_new" /\ pc'[t] = "poll_new")
                => locked /\ ~registered_waker[t] /\ inserts[t] = 0 /\ awaker[t] = "none"
          /\ (pc[t] = "fresh" /\ pc'[t] = "holding")
                => /\ UNCHANGED <<spin, wakelist, awaker, registered_waker, inserts>>
                   /\ ~registered_waker[t] /\ awaker[t] = "none"
          /\ registered_waker[t] => registered_waker'[t] /\ inserts[t] = 1]_vars

\* A request whose first poll found the cell free has completed and released
\* without ever owning a handle, while another request still owns, bound again
\* after a drain fired it, the one handle it created.
C19_Witness ==
    \E t, u \in Tasks :
        /\ pc[t] = "done" /\ ~registered_waker[t] /\ inserts[t] = 0 /\ awaker[t] = "none"
        /\ Suspended(u) /\ registered_waker[u] /\ inserts[u] = 1
        /\ ~InList(u) /\ awaker[u] = "cur"

\* C20: a request pushes its handle at most once in its lifetime, and not again once
\* a drain has removed it; no handle occurs twice in the wakelist; and every entry
\* of the wakelist is the handle of a distinct request that had a contended poll
\* since the latest drain ended: the wakelist is empty when a drain ends and grows
\* only by the one handle of a request that ends its first contended poll.
C20_InsertOnce ==
    [][/\ \A t \in Tasks :
            /\ inserts'[t] <= 1
            /\ (registered_waker[t] /\ ~InList(t)) => ~InList(t)'
       /\ Len(wakelist) = Cardinality({t \in Tasks : InList(t)})
       /\ Len(wakelist) <= Cardinality({t \in Tasks : registered_waker[t] /\ inserts[t] = 1})
       /\ Len(wakelist') > Len(wakelist)
             => \E t \in Tasks :
                    /\ pc[t] = "poll_push" /\ pc'[t] = "suspended"
                    /\ inserts[t] = 0 /\ ~InList(t)
                    /\ wakelist' = Append(wakelist, t)
       /\ \A t \in Tasks :
            (pc[t] = "drop_drain" /\ pc'[t] = "done") => wakelist' = <<>>]_vars

\* A request whose handle a drain removed has been polled again and is suspended
\* again without a new entry, while the handle of another request is in the wakelist.
C20_Witness ==
    \E t, u \in Tasks :
        /\ Suspended(t) /\ registered_waker[t] /\ inserts[t] = 1
        /\ ~InList(t) /\ ~woken[t] /\ awaker[t] = "cur"
        /\ Suspended(u) /\ Count(u) = 1 /\ Len(wakelist) = 1

TypeOK ==
    /\ perfwarn_interval \in [Tasks -> {"absent", "none", "some"}]
    /\ rebound \in Tasks \cup {NoTask}
    /\ pc \in [Tasks -> {"idle", "refused", "fresh", "poll_rebind", "poll_new",
                         "poll_push", "suspended", "abandoned", "holding", "incr", "written",
                         "drop_spin", "drop_drain", "done"}]
    /\ locked \in BOOLEAN
    /\ inner \in [Tasks -> BOOLEAN]
    /\ value \in Nat
    /\ spin \in Tasks \cup {NoTask}
    /\ wakelist \in Seq(Tasks)
    /\ awaker \in [Tasks -> {"none", "cur", "old"}]
    /\ woken \in [Tasks -> BOOLEAN]

====
